---- MODULE Spec2Model ----
(***************************************************************************)
(* Open-Knesset, laws/models.py: the bill-stage state machine              *)
(* (Bill.update_stage) and the vote classifier                             *)
(* (Vote.update_vote_properties, Vote.reparse_members_from_votes_page,     *)
(* VoteAction.save).                                                       *)
(*                                                                         *)
(* Dates are day numbers.  FIRST_KNESSET_START is day 0 and every record   *)
(* of a bill (vote, meeting, proposal) is dated on a later day.  A null    *)
(* field is NULL.                                                          *)
(***************************************************************************)
EXTENDS Integers, Sequences, FiniteSets, Bags, TLC

VARIABLES
    \* ---- one Bill row and the rows related to it
    stage,                      \* Bill.stage
    stage_date,                 \* Bill.stage_date (NULL on a new bill)
    approval_vote,              \* Bill.approval_vote (NULL or a vote)
    first_vote,                 \* Bill.first_vote (NULL or a vote)
    pre_votes,                  \* Bill.pre_votes (set of votes)
    first_committee_meetings,   \* dates of the meetings before the first vote
    second_committee_meetings,  \* dates of the meetings after the first vote
    knesset_proposal,           \* date of the bill's KnessetProposal, or NULL
    gov_proposal,               \* date of the bill's GovProposal, or NULL
    proposals,                  \* dates of the bill's PrivateProposals
    bill_proposers,             \* Bill.proposers (set of members)
    stream,                     \* the bill's activity stream: "generated" from the data as
                                \* they are, or "behind" them
    another_bill,               \* a second Bill row with its related rows, or NoBill
    proposal_votes,             \* BillProposal.votes of the bill's proposals, by kind of proposal
    bill_op,                    \* the last operation on the bill
    \* ---- one Vote row, its VoteAction rows and what its classification reads
    vote,                       \* the Vote's aggregate counters
    actions,                    \* member -> the member's VoteAction on the vote
    party_at,                   \* member -> Member.party_at(vote.time.date())
    current_party,              \* member -> Member.current_party
    is_coalition,               \* party -> Party.is_coalition_at(vote.time.date())
    proposers,                  \* proposers of the bills the vote is about
    results,                    \* the rows of the votes page the last operation parsed
    vote_op,                    \* how the last operation on the vote ended
    \* ---- one Member's VoteAction rows over all votes, and the statistics on them
    member_actions,             \* bag of the member's VoteActions (type, against_party, vote time)
    votes_count_cache,          \* cache entry 'votes_count_<member id>', NULL when absent
    number_of_seats,            \* Party.number_of_seats of the member's party
    member_ids,                 \* CandidateList.member_ids of the candidates list
    returned                    \* what the last statistics call returned

bill_vars == <<stage, stage_date, approval_vote, first_vote, pre_votes,
               first_committee_meetings, second_committee_meetings,
               knesset_proposal, gov_proposal, proposals, bill_proposers,
               stream, another_bill, proposal_votes, bill_op>>

vote_vars == <<vote, actions, party_at, current_party, is_coalition, proposers, results, vote_op>>

stats_vars == <<member_actions, votes_count_cache, number_of_seats, member_ids, returned>>

vars == <<bill_vars, vote_vars, stats_vars>>

-----------------------------------------------------------------------------
(* Bounds *)

MaxDate == 2

MaxRecords == 2

NumMembers == 3

\* The votes one member has a VoteAction on.
MaxVotes == 5

\* The Vote rows linked to the proposals of one bill.
NumLinkedVotes == 2

-----------------------------------------------------------------------------
(* Values *)

\* None, and a null column: a value no date and no counter takes.
NULL == -1

FIRST_KNESSET_START == 0

Dates == 1..MaxDate

PROPOSED == "PROPOSED"

IN_COMMITTEE == "IN_COMMITTEE"

PRE_APPROVED == "PRE_APPROVED"

FAILED_PRE_APPROVAL == "FAILED_PRE_APPROVAL"

CONVERTED_TO_DISCUSSION == "CONVERTED_TO_DISCUSSION"

COMMITTEE_CORRECTIONS == "COMMITTEE_CORRECTIONS"

FIRST_VOTE == "FIRST_VOTE"

FAILED_FIRST_VOTE == "FAILED_FIRST_VOTE"

APPROVED == "APPROVED"

FAILED_APPROVAL == "FAILED_APPROVAL"

\* Bill.stage is a CharField without a default: a new bill holds ''.
NoStage == ""

BillStages == {PROPOSED, IN_COMMITTEE, PRE_APPROVED, FAILED_PRE_APPROVAL,
               CONVERTED_TO_DISCUSSION, COMMITTEE_CORRECTIONS, FIRST_VOTE,
               FAILED_FIRST_VOTE, APPROVED, FAILED_APPROVAL}

\* A vote title either holds one of CONVERT_TO_DISCUSSION_HEADERS or not.
CONVERT_TO_DISCUSSION_HEADERS == {"convert"}

Titles == {"plain", "convert"}

\* for_votes_count and against_votes_count of a vote a bill refers to: a
\* passed vote, a failed one and a tie.
Tallies == {<<1, 0>>, <<0, 1>>, <<1, 1>>}

BillVote(d, t, title) ==
    [time_date |-> d, for_votes_count |-> t[1],
     against_votes_count |-> t[2], title |-> title]

\* A null foreign key to a vote.
NoVote == BillVote(NULL, <<NULL, NULL>>, "")

\* The votes that can be a bill's first or approval vote; update_stage never
\* reads their title.
RoleVotes == {BillVote(d, t, "plain") : d \in Dates, t \in Tallies}

PreVotes == {BillVote(d, t, title) : d \in Dates, t \in Tallies, title \in Titles}

\* Python 2 orders None below every integer.
Greater(a, b) ==
    IF a = NULL THEN FALSE
    ELSE IF b = NULL THEN TRUE
    ELSE a > b

\* Every order in which a query may return the rows of S.
Orders(S) ==
    {q \in [1..Cardinality(S) -> S] : \A i, j \in 1..Cardinality(S) : i # j => q[i] # q[j]}

\* Vote.Meta.ordering = ('-time', '-id'): latest first; the time of day and
\* the id, which order the votes of one day, are not part of the model.
VoteOrders(S) ==
    {q \in Orders(S) : \A i, j \in 1..Cardinality(S) : i < j => q[i].time_date >= q[j].time_date}

-----------------------------------------------------------------------------
(* Bill.update_stage *)

St(s, d) == [stage |-> s, stage_date |-> d]

Later(st, d) == st.stage_date = NULL \/ st.stage_date < d

RECURSIVE ScanSecondCommitteeMeetings(_, _)
ScanSecondCommitteeMeetings(cms, st) ==
    IF cms = <<>> THEN st
    ELSE ScanSecondCommitteeMeetings(Tail(cms),
            IF Later(st, Head(cms)) THEN St(COMMITTEE_CORRECTIONS, Head(cms)) ELSE st)

RECURSIVE ScanFirstCommitteeMeetings(_, _)
ScanFirstCommitteeMeetings(cms, st) ==
    IF cms = <<>> THEN st
    ELSE ScanFirstCommitteeMeetings(Tail(cms),
            IF Later(st, Head(cms)) /\ st.stage # CONVERTED_TO_DISCUSSION
            THEN St(IN_COMMITTEE, Head(cms)) ELSE st)

RECURSIVE ScanConverted(_, _)
ScanConverted(vs, st) ==
    IF vs = <<>> THEN st
    ELSE ScanConverted(Tail(vs),
            IF Later(st, Head(vs).time_date) /\ Head(vs).title \in CONVERT_TO_DISCUSSION_HEADERS
            THEN St(CONVERTED_TO_DISCUSSION, Head(vs).time_date) ELSE st)

RECURSIVE ScanPreVotes(_, _)
ScanPreVotes(vs, st) ==
    IF vs = <<>> THEN st
    ELSE ScanPreVotes(Tail(vs),
            IF Later(st, Head(vs).time_date)
            THEN St(IF Greater(Head(vs).for_votes_count, Head(vs).against_votes_count)
                    THEN PRE_APPROVED ELSE FAILED_PRE_APPROVAL,
                    Head(vs).time_date)
            ELSE st)

RECURSIVE ScanProposals(_, _)
ScanProposals(pps, st) ==
    IF pps = <<>> THEN st
    ELSE ScanProposals(Tail(pps),
            IF Later(st, Head(pps)) THEN St(PROPOSED, Head(pps)) ELSE st)

\* A slip: the proposal's date is taken without comparing it.
ProposalStepTakesAny(p, st) ==
    IF p # NULL THEN St(IN_COMMITTEE, p) ELSE st

ProposalStep(p, st) ==
    IF p # NULL /\ Later(st, p) THEN St(IN_COMMITTEE, p) ELSE st

\* A slip in the comparison: a tied approval vote counts as passed.
ApprovalBranchTiePasses(st) ==
    St(IF approval_vote.for_votes_count >= approval_vote.against_votes_count
       THEN APPROVED ELSE FAILED_APPROVAL,
       approval_vote.time_date)

ApprovalBranch(st) ==
    St(IF Greater(approval_vote.for_votes_count, approval_vote.against_votes_count)
       THEN APPROVED ELSE FAILED_APPROVAL,
       approval_vote.time_date)

\* A slip: the first vote is compared with stage_date like the scanned rows.
FirstVoteBranchIfLater(st) ==
    IF Later(st, first_vote.time_date)
    THEN St(IF Greater(first_vote.for_votes_count, first_vote.against_votes_count)
            THEN FIRST_VOTE ELSE FAILED_FIRST_VOTE,
            first_vote.time_date)
    ELSE st

FirstVoteBranch(st) ==
    St(IF Greater(first_vote.for_votes_count, first_vote.against_votes_count)
       THEN FIRST_VOTE ELSE FAILED_FIRST_VOTE,
       first_vote.time_date)

FullScan(st, fcm, pvs, pps) ==
    ScanProposals(pps,
      ScanPreVotes(pvs,
        ScanConverted(pvs,
          ScanFirstCommitteeMeetings(fcm,
            ProposalStep(gov_proposal, ProposalStep(knesset_proposal, st))))))

\* A slip: a forced call forgets the stage as well as the stage_date.
ResetStageAndDate(force_update) ==
    St(IF force_update THEN NoStage ELSE stage,
       IF stage_date = NULL \/ force_update THEN FIRST_KNESSET_START ELSE stage_date)

ResetStageDate(force_update) ==
    St(stage, IF stage_date = NULL \/ force_update THEN FIRST_KNESSET_START ELSE stage_date)

\* The stage and stage_date update_stage saves, for one order of each query,
\* when st0 is the bill's stage with the stage_date the first lines leave.
UpdateStageResult(st0, scm, fcm, pvs, pps) ==
    LET st1 == ScanSecondCommitteeMeetings(scm, st0)
    IN  IF approval_vote # NoVote THEN ApprovalBranch(st0)
        ELSE IF st1.stage = COMMITTEE_CORRECTIONS THEN st1
        ELSE IF first_vote # NoVote THEN FirstVoteBranch(st1)
        ELSE FullScan(st1, fcm, pvs, pps)

\* Every result update_stage can save in the current state.
UpdateStageResults(st0) ==
    {UpdateStageResult(st0, scm, fcm, pvs, pps) :
        scm \in Orders(second_committee_meetings),
        fcm \in Orders(first_committee_meetings),
        pvs \in VoteOrders(pre_votes),
        pps \in Orders(proposals)}

\* update_stage runs to its last two lines, save and
\* generate_activity_stream: none of the three early returns is taken.
ReachesFullScan(st0) ==
    /\ approval_vote = NoVote
    /\ st0.stage # COMMITTEE_CORRECTIONS
    /\ \A d \in second_committee_meetings : ~Later(st0, d)
    /\ first_vote = NoVote

\* The stream after update_stage: generate_activity_stream deletes the
\* bill's stream and builds it from the bill's rows; the early returns leave
\* the stream as it was.
StreamAfter(st0, old) == IF ReachesFullScan(st0) THEN "generated" ELSE old

bill_data == <<approval_vote, first_vote, pre_votes, first_committee_meetings,
               second_committee_meetings, knesset_proposal, gov_proposal, proposals>>

update_stage(force_update) ==
    /\ \E r \in UpdateStageResults(ResetStageDate(force_update)) :
          /\ stage' = r.stage
          /\ stage_date' = r.stage_date
    /\ stream' = StreamAfter(ResetStageDate(force_update), stream)
    /\ bill_op' = "update_stage"
    /\ UNCHANGED <<bill_data, bill_proposers, another_bill, proposal_votes, vote_vars, stats_vars>>

-----------------------------------------------------------------------------
(* Rows attached to and detached from the bill *)

Slot(x) == IF x = NULL THEN 0 ELSE 1

VoteSlot(v) == IF v = NoVote THEN 0 ELSE 1

\* The rows related to a bill b.
RecordsOf(b) ==
    VoteSlot(b.approval_vote) + VoteSlot(b.first_vote) + Cardinality(b.pre_votes)
    + Cardinality(b.first_committee_meetings) + Cardinality(b.second_committee_meetings)
    + Slot(b.knesset_proposal) + Slot(b.gov_proposal) + Cardinality(b.proposals)
    + Cardinality(b.proposers)

\* The Bill row the operations act on (self), as one record.
SelfBill ==
    [stage |-> stage, stage_date |-> stage_date, approval_vote |-> approval_vote,
     first_vote |-> first_vote, pre_votes |-> pre_votes,
     first_committee_meetings |-> first_committee_meetings,
     second_committee_meetings |-> second_committee_meetings,
     knesset_proposal |-> knesset_proposal, gov_proposal |-> gov_proposal,
     proposals |-> proposals, proposers |-> bill_proposers, stream |-> stream]

\* A new Bill row: no stage, no stage_date, nothing related, an empty stream.
NewBill ==
    [stage |-> NoStage, stage_date |-> NULL, approval_vote |-> NoVote,
     first_vote |-> NoVote, pre_votes |-> {},
     first_committee_meetings |-> {}, second_committee_meetings |-> {},
     knesset_proposal |-> NULL, gov_proposal |-> NULL,
     proposals |-> {}, proposers |-> {}, stream |-> "generated"]

\* There is no second Bill row.
NoBill == [NewBill EXCEPT !.stream = "none"]

\* The rows related to the two bills.
Records ==
    VoteSlot(approval_vote) + VoteSlot(first_vote) + Cardinality(pre_votes)
    + Cardinality(first_committee_meetings) + Cardinality(second_committee_meetings)
    + Slot(knesset_proposal) + Slot(gov_proposal) + Cardinality(proposals)
    + Cardinality(bill_proposers)
    + (IF another_bill = NoBill THEN 0 ELSE RecordsOf(another_bill))

\* A related row was attached or detached: the stream is now behind the data.
Edited == /\ bill_op' = "edit"
          /\ stream' = "behind"
          /\ UNCHANGED <<stage, stage_date, bill_proposers, another_bill, proposal_votes, vote_vars, stats_vars>>

set_approval_vote ==
    /\ \/ /\ Records < MaxRecords
          /\ approval_vote = NoVote
          /\ \E v \in RoleVotes : approval_vote' = v
       \/ /\ approval_vote # NoVote
          /\ approval_vote' = NoVote
    /\ Edited
    /\ UNCHANGED <<first_vote, pre_votes, first_committee_meetings,
                   second_committee_meetings, knesset_proposal, gov_proposal, proposals>>

set_first_vote ==
    /\ \/ /\ Records < MaxRecords
          /\ first_vote = NoVote
          /\ \E v \in RoleVotes : first_vote' = v
       \/ /\ first_vote # NoVote
          /\ first_vote' = NoVote
    /\ Edited
    /\ UNCHANGED <<approval_vote, pre_votes, first_committee_meetings,
                   second_committee_meetings, knesset_proposal, gov_proposal, proposals>>

set_pre_votes ==
    /\ \/ /\ Records < MaxRecords
          /\ \E v \in PreVotes \ pre_votes : pre_votes' = pre_votes \cup {v}
       \/ \E v \in pre_votes : pre_votes' = pre_votes \ {v}
    /\ Edited
    /\ UNCHANGED <<approval_vote, first_vote, first_committee_meetings,
                   second_committee_meetings, knesset_proposal, gov_proposal, proposals>>

set_first_committee_meetings ==
    /\ \/ /\ Records < MaxRecords
          /\ \E d \in Dates \ first_committee_meetings :
                first_committee_meetings' = first_committee_meetings \cup {d}
       \/ \E d \in first_committee_meetings :
                first_committee_meetings' = first_committee_meetings \ {d}
    /\ Edited
    /\ UNCHANGED <<approval_vote, first_vote, pre_votes,
                   second_committee_meetings, knesset_proposal, gov_proposal, proposals>>

set_second_committee_meetings ==
    /\ \/ /\ Records < MaxRecords
          /\ \E d \in Dates \ second_committee_meetings :
                second_committee_meetings' = second_committee_meetings \cup {d}
       \/ \E d \in second_committee_meetings :
                second_committee_meetings' = second_committee_meetings \ {d}
    /\ Edited
    /\ UNCHANGED <<approval_vote, first_vote, pre_votes,
                   first_committee_meetings, knesset_proposal, gov_proposal, proposals>>

set_knesset_proposal ==
    /\ \/ /\ Records < MaxRecords
          /\ knesset_proposal = NULL
          /\ \E d \in Dates : knesset_proposal' = d
       \/ /\ knesset_proposal # NULL
          /\ knesset_proposal' = NULL
    /\ Edited
    /\ UNCHANGED <<approval_vote, first_vote, pre_votes, first_committee_meetings,
                   second_committee_meetings, gov_proposal, proposals>>

set_gov_proposal ==
    /\ \/ /\ Records < MaxRecords
          /\ gov_proposal = NULL
          /\ \E d \in Dates : gov_proposal' = d
       \/ /\ gov_proposal # NULL
          /\ gov_proposal' = NULL
    /\ Edited
    /\ UNCHANGED <<approval_vote, first_vote, pre_votes, first_committee_meetings,
                   second_committee_meetings, knesset_proposal, proposals>>

set_proposals ==
    /\ \/ /\ Records < MaxRecords
          /\ \E d \in Dates \ proposals : proposals' = proposals \cup {d}
       \/ \E d \in proposals : proposals' = proposals \ {d}
    /\ Edited
    /\ UNCHANGED <<approval_vote, first_vote, pre_votes, first_committee_meetings,
                   second_committee_meetings, knesset_proposal, gov_proposal>>

\* A proposer (member 1) is added to Bill.proposers or removed from it.
set_bill_proposers ==
    /\ \/ /\ Records < MaxRecords
          /\ \E m \in {1} \ bill_proposers : bill_proposers' = bill_proposers \cup {m}
       \/ \E m \in bill_proposers : bill_proposers' = bill_proposers \ {m}
    /\ bill_op' = "edit"
    /\ UNCHANGED <<stage, stage_date, bill_data, stream, another_bill, proposal_votes, vote_vars, stats_vars>>

-----------------------------------------------------------------------------
(* Bill.merge *)

\* A second bill is created next to a bill whose stage was never computed:
\* the first bill becomes another_bill, and self is the new bill from now on.
create_bill ==
    /\ another_bill = NoBill
    /\ stage_date = NULL
    /\ another_bill' = SelfBill
    /\ stage' = NewBill.stage
    /\ stage_date' = NewBill.stage_date
    /\ approval_vote' = NewBill.approval_vote
    /\ first_vote' = NewBill.first_vote
    /\ pre_votes' = NewBill.pre_votes
    /\ first_committee_meetings' = NewBill.first_committee_meetings
    /\ second_committee_meetings' = NewBill.second_committee_meetings
    /\ knesset_proposal' = NewBill.knesset_proposal
    /\ gov_proposal' = NewBill.gov_proposal
    /\ proposals' = NewBill.proposals
    /\ bill_proposers' = NewBill.proposers
    /\ stream' = NewBill.stream
    /\ bill_op' = "create"
    /\ UNCHANGED <<proposal_votes, vote_vars, stats_vars>>

\* A slip: the test of the two KnessetProposals is left out.
KnessetProposalsNeverConflict(b) == FALSE

\* my_kp and other_kp: both bills have a KnessetProposal.
BothHaveKnessetProposal(b) == knesset_proposal # NULL /\ b.knesset_proposal # NULL

\* The call of self.update_stage() that ends merge, on the rows as merge
\* leaves them: the stream is behind when merge changed the bill's rows.
MergeUpdatesStage ==
    \E st0 \in {ResetStageDate(FALSE)},
       old \in {IF bill_data' = bill_data THEN stream ELSE "behind"} :
        /\ \E r \in UpdateStageResults(st0)' :
              /\ stage' = r.stage
              /\ stage_date' = r.stage_date
        /\ stream' = StreamAfter(st0, old)'

\* self.merge(another_bill) for the second Bill row.
merge ==
    /\ another_bill # NoBill
    /\ IF BothHaveKnessetProposal(another_bill)
       THEN UNCHANGED <<stage, stage_date, bill_data, bill_proposers, stream, another_bill>>
       ELSE /\ pre_votes' = pre_votes \cup another_bill.pre_votes
            /\ first_committee_meetings' =
                  first_committee_meetings \cup another_bill.first_committee_meetings
            /\ first_vote' = IF first_vote = NoVote THEN another_bill.first_vote ELSE first_vote
            /\ second_committee_meetings' =
                  second_committee_meetings \cup another_bill.second_committee_meetings
            /\ approval_vote' =
                  IF approval_vote = NoVote THEN another_bill.approval_vote ELSE approval_vote
            /\ bill_proposers' = bill_proposers \cup another_bill.proposers
            /\ proposals' = proposals \cup another_bill.proposals
            /\ knesset_proposal' =
                  IF another_bill.knesset_proposal # NULL THEN another_bill.knesset_proposal
                  ELSE knesset_proposal
            \* the GovProposal of another_bill is not moved and goes with it
            /\ gov_proposal' = gov_proposal
            /\ another_bill' = NoBill
            /\ MergeUpdatesStage
    /\ bill_op' = "merge"
    /\ UNCHANGED <<proposal_votes, vote_vars, stats_vars>>

\* self.merge(another_bill) where another_bill is the row of self: the same
\* object, or a second object loaded for the same id.  For a second object
\* the test `self is another_bill` fails; the loops add to self what it has,
\* another_bill.delete() deletes the row with all that refers to it, and
\* update_stage saves self again, with the two votes its fields still name.
merge_same_record(same_object) ==
    /\ IF same_object \/ knesset_proposal # NULL
       THEN UNCHANGED <<stage, stage_date, bill_data, bill_proposers, stream>>
       ELSE /\ pre_votes' = {}
            /\ first_committee_meetings' = {}
            /\ second_committee_meetings' = {}
            /\ bill_proposers' = {}
            /\ proposals' = {}
            /\ gov_proposal' = NULL
            /\ UNCHANGED <<first_vote, approval_vote, knesset_proposal>>
            /\ MergeUpdatesStage
    /\ bill_op' = "merge_same_record"
    /\ UNCHANGED <<another_bill, proposal_votes, vote_vars, stats_vars>>

-----------------------------------------------------------------------------
(* Bill.update_votes *)

\* this_v.title.find(...) == 0: the title begins with the word for approval,
\* or with the words that open the title of a vote to pass the bill on.
APPROVAL_TITLE == "approval"

FIRST_VOTE_TITLE == "pass on"

LinkedTitles == {APPROVAL_TITLE, FIRST_VOTE_TITLE, "plain"}

\* A Vote row with its id, as a proposal's votes relation holds it.
LinkedVote(id, d, title) ==
    [id |-> id, time_date |-> d, for_votes_count |-> 1,
     against_votes_count |-> 0, title |-> title]

LinkedVotes ==
    {LinkedVote(id, d, title) : id \in 1..NumLinkedVotes, d \in Dates, title \in LinkedTitles}

ProposalKinds == {"gov", "knesset", "private"}

NoProposalVotes == [k \in ProposalKinds |-> {}]

\* The links between the bill's proposals and votes.
Links ==
    Cardinality(proposal_votes["gov"]) + Cardinality(proposal_votes["knesset"])
    + Cardinality(proposal_votes["private"])

\* A vote is linked to the GovProposal, the KnessetProposal or a
\* PrivateProposal of the bill; one id is one Vote row.
link_vote ==
    /\ Links < MaxRecords
    /\ \E v \in LinkedVotes, k \in ProposalKinds :
          /\ \A j \in ProposalKinds : \A w \in proposal_votes[j] : w.id = v.id => w = v
          /\ v \notin proposal_votes[k]
          /\ proposal_votes' = [proposal_votes EXCEPT ![k] = @ \cup {v}]
    /\ bill_op' = "link_vote"
    /\ UNCHANGED <<stage, stage_date, bill_data, bill_proposers, stream, another_bill,
                   vote_vars, stats_vars>>

\* The loop over gp.votes.all(): r holds self.approval_vote, self.first_vote,
\* self.pre_votes and used_votes.
RECURSIVE GovProposalVotes(_, _)
GovProposalVotes(vs, r) ==
    IF vs = <<>> THEN r
    ELSE LET this_v == Head(vs)
             r1 == IF this_v.title = APPROVAL_TITLE
                   THEN [r EXCEPT !.approval_vote = this_v,
                                  !.used_votes = @ \cup {this_v.id}]
                   ELSE r
             r2 == IF this_v.title = FIRST_VOTE_TITLE
                   THEN [r1 EXCEPT !.first_vote = this_v]
                   ELSE r1
         IN  GovProposalVotes(Tail(vs), r2)

\* The loop over kp[0].votes.all().
RECURSIVE KnessetProposalVotes(_, _)
KnessetProposalVotes(vs, r) ==
    IF vs = <<>> THEN r
    ELSE LET this_v == Head(vs)
             r1 == IF this_v.title = APPROVAL_TITLE
                   THEN [r EXCEPT !.approval_vote = this_v,
                                  !.used_votes = @ \cup {this_v.id}]
                   ELSE r
             r2 == IF this_v.title = FIRST_VOTE_TITLE
                   THEN IF this_v.time_date > knesset_proposal
                        THEN [r1 EXCEPT !.first_vote = this_v,
                                        !.used_votes = @ \cup {this_v.id}]
                        ELSE [r1 EXCEPT !.pre_votes = @ \cup {this_v},
                                        !.used_votes = @ \cup {this_v.id}]
                   ELSE r1
         IN  KnessetProposalVotes(Tail(vs), r2)

\* The loops over the votes of the bill's private proposals.
PrivateProposalVotes(vs, r) ==
    [r EXCEPT !.pre_votes = @ \cup {this_v \in vs : this_v.id \notin r.used_votes}]

\* The votes of the proposals of one kind, when the bill has such a proposal.
VotesOf(kind, has_proposal) == IF has_proposal THEN proposal_votes[kind] ELSE {}

update_votes ==
    /\ \E gq \in VoteOrders(VotesOf("gov", gov_proposal # NULL)),
          kq \in VoteOrders(VotesOf("knesset", knesset_proposal # NULL)) :
          LET r0 == [approval_vote |-> approval_vote, first_vote |-> first_vote,
                     pre_votes |-> pre_votes, used_votes |-> {}]
              r  == PrivateProposalVotes(VotesOf("private", proposals # {}),
                       KnessetProposalVotes(kq, GovProposalVotes(gq, r0)))
          IN  /\ approval_vote' = r.approval_vote
              /\ first_vote' = r.first_vote
              /\ pre_votes' = r.pre_votes
    /\ UNCHANGED <<first_committee_meetings, second_committee_meetings,
                   knesset_proposal, gov_proposal, proposals>>
    /\ MergeUpdatesStage
    /\ bill_op' = "update_votes"
    /\ UNCHANGED <<bill_proposers, another_bill, proposal_votes, vote_vars, stats_vars>>

-----------------------------------------------------------------------------
(* Votes, members and parties *)

Members == 1..NumMembers

Parties == {"A", "B"}

\* Member.party_at returns None, and Member.current_party is null.
NoParty == "none"

VOTE_ACTION_TYPE_CHOICES == {"for", "against", "abstain", "no-vote"}

\* STANDS_FOR_THRESHOLD as the fraction NUM / DEN.
STANDS_FOR_THRESHOLD_NUM == 1

STANDS_FOR_THRESHOLD_DEN == 2

VoteAction(t, p, ap, ac, ao, ab) ==
    [type |-> t, party |-> p, against_party |-> ap, against_coalition |-> ac,
     against_opposition |-> ao, against_own_bill |-> ab]

\* The member has no VoteAction on the vote.
NoAction == VoteAction("", NoParty, FALSE, FALSE, FALSE, FALSE)

\* A new VoteAction: the four flags default to False.
NewVoteAction(t, p) == VoteAction(t, p, FALSE, FALSE, FALSE, FALSE)

\* The Vote before its first classification: every counter is null.
NewVote ==
    [votes_count |-> NULL, for_votes_count |-> NULL, against_votes_count |-> NULL,
     abstain_votes_count |-> NULL, controversy |-> NULL, against_party |-> NULL,
     against_coalition |-> NULL, against_opposition |-> NULL, against_own_bill |-> NULL]

\* VoteAction.objects.filter(vote=self)
Voters == {m \in Members : actions[m] # NoAction}

\* VoteAction.objects.filter(vote=self, type=t)
VotersOfType(t) == {m \in Voters : actions[m].type = t}

\* A slip: the larger of the two.
MinPicksLarger(a, b) == IF a < b THEN b ELSE a

Min(a, b) == IF a < b THEN a ELSE b

-----------------------------------------------------------------------------
(* Vote.update_vote_properties *)

\* party_at_or_error raises for these members.
Unresolved(ms) == {m \in ms : party_at[m] = NoParty}

\* party_for_votes / party_against_votes
PartyVotes(p, t) == Cardinality({m \in VotersOfType(t) : party_at[m] = p})

\* coalition_for_votes, ..., opposition_against_votes
SideVotes(coalition, t) ==
    Cardinality({m \in VotersOfType(t) :
                    party_at[m] # NoParty /\ is_coalition[party_at[m]] = coalition})

\* A slip in the comparison: reaching the threshold is enough.
StandsAtThreshold(n, fv, av) ==
    n * STANDS_FOR_THRESHOLD_DEN >= STANDS_FOR_THRESHOLD_NUM * (fv + av)

\* float(n) > STANDS_FOR_THRESHOLD * (fv + av)
Stands(n, fv, av) ==
    n * STANDS_FOR_THRESHOLD_DEN > STANDS_FOR_THRESHOLD_NUM * (fv + av)

party_stands_for(p) == Stands(PartyVotes(p, "for"), PartyVotes(p, "for"), PartyVotes(p, "against"))

party_stands_against(p) == Stands(PartyVotes(p, "against"), PartyVotes(p, "for"), PartyVotes(p, "against"))

side_stands_for(coalition) ==
    Stands(SideVotes(coalition, "for"), SideVotes(coalition, "for"), SideVotes(coalition, "against"))

side_stands_against(coalition) ==
    Stands(SideVotes(coalition, "against"), SideVotes(coalition, "for"), SideVotes(coalition, "against"))

\* A slip: the member's own side is not tested, so the action is compared
\* with the stand of either side.
AgainstSideOfAnyMember(m, coalition) ==
    \/ side_stands_for(coalition) /\ actions[m].type = "against"
    \/ side_stands_against(coalition) /\ actions[m].type = "for"

\* Whether the action disagrees with the stand of the member's side.
AgainstSide(m, coalition) ==
    /\ is_coalition[party_at[m]] = coalition
    /\ \/ side_stands_for(coalition) /\ actions[m].type = "against"
       \/ side_stands_against(coalition) /\ actions[m].type = "for"

\* A slip: the flags are not cleared first, a flag once set stays set.
ClassifiedKeepsFlags(acts, m) ==
    VoteAction(acts[m].type, acts[m].party,
        \/ acts[m].against_party
        \/ party_stands_for(party_at[m]) /\ acts[m].type = "against"
        \/ party_stands_against(party_at[m]) /\ acts[m].type = "for",
        acts[m].against_coalition \/ AgainstSide(m, TRUE),
        acts[m].against_opposition \/ AgainstSide(m, FALSE),
        acts[m].against_own_bill \/ (m \in proposers /\ acts[m].type = "against"))

\* One pass of the loop over the vote's actions, on the stored action
\* acts[m]: the four flags are cleared and set again, the rest is kept.
Classified(acts, m) ==
    VoteAction(acts[m].type, acts[m].party,
        \/ party_stands_for(party_at[m]) /\ acts[m].type = "against"
        \/ party_stands_against(party_at[m]) /\ acts[m].type = "for",
        AgainstSide(m, TRUE),
        AgainstSide(m, FALSE),
        m \in proposers /\ acts[m].type = "against")

\* The actions after the loop has passed over the members of done.
ClassifiedActions(done) ==
    [m \in Members |-> IF m \in done THEN Classified(actions, m) ELSE actions[m]]

\* How many of the vote's actions have the flag set.
CountFlag(acts, flag) == Cardinality({m \in Members : acts[m] # NoAction /\ acts[m][flag]})

\* A slip: votes_count leaves out the 'no-vote' actions.
AggregatesSkipNoVote(acts) ==
    [votes_count |-> Cardinality(Voters \ VotersOfType("no-vote")),
     for_votes_count |-> Cardinality(VotersOfType("for")),
     against_votes_count |-> Cardinality(VotersOfType("against")),
     abstain_votes_count |-> Cardinality(VotersOfType("abstain")),
     controversy |-> Min(Cardinality(VotersOfType("for")), Cardinality(VotersOfType("against"))),
     against_party |-> CountFlag(acts, "against_party"),
     against_coalition |-> CountFlag(acts, "against_coalition"),
     against_opposition |-> CountFlag(acts, "against_opposition"),
     against_own_bill |-> CountFlag(acts, "against_own_bill")]

\* The counters the run saves on the Vote.
Aggregates(acts) ==
    [votes_count |-> Cardinality(Voters),
     for_votes_count |-> Cardinality(VotersOfType("for")),
     against_votes_count |-> Cardinality(VotersOfType("against")),
     abstain_votes_count |-> Cardinality(VotersOfType("abstain")),
     controversy |-> Min(Cardinality(VotersOfType("for")), Cardinality(VotersOfType("against"))),
     against_party |-> CountFlag(acts, "against_party"),
     against_coalition |-> CountFlag(acts, "against_coalition"),
     against_opposition |-> CountFlag(acts, "against_opposition"),
     against_own_bill |-> CountFlag(acts, "against_own_bill")]

vote_env == <<party_at, current_party, is_coalition, proposers>>

\* Every party resolves: all actions are classified and saved, then the Vote.
update_vote_properties_ok ==
    /\ Unresolved(Voters) = {}
    /\ actions' = ClassifiedActions(Voters)
    /\ vote' = Aggregates(actions')
    /\ vote_op' = "classified"
    /\ results' = <<>>
    /\ UNCHANGED <<vote_env, bill_vars, stats_vars>>

\* A 'for' or 'against' voter has no party: party_at_or_error raises while
\* the party counts are built, before anything is written.
update_vote_properties_raises_early ==
    /\ Unresolved(VotersOfType("for") \cup VotersOfType("against")) # {}
    /\ vote_op' = "raised"
    /\ results' = <<>>
    /\ UNCHANGED <<vote, actions, vote_env, bill_vars, stats_vars>>

\* Only abstaining or absent voters have no party: party_at_or_error raises
\* inside the loop, after the actions the query returned before that member
\* (any set of the resolved ones) were saved one by one; the Vote is not saved.
update_vote_properties_raises_late ==
    /\ Unresolved(VotersOfType("for") \cup VotersOfType("against")) = {}
    /\ Unresolved(Voters) # {}
    /\ \E done \in SUBSET (Voters \ Unresolved(Voters)) :
          actions' = ClassifiedActions(done)
    /\ vote_op' = "raised"
    /\ results' = <<>>
    /\ UNCHANGED <<vote, vote_env, bill_vars, stats_vars>>

update_vote_properties ==
    \/ update_vote_properties_ok
    \/ update_vote_properties_raises_early
    \/ update_vote_properties_raises_late

-----------------------------------------------------------------------------
(* VoteAction.save and Vote.reparse_members_from_votes_page *)

\* VoteAction.save: an action without a party takes the member's party at
\* the vote's date, when there is one.
SavedParty(m, p) == IF p = NoParty THEN party_at[m] ELSE p

\* A voter id on a votes page that is the pk of no Member.
UnknownVoterId == 0

\* A row of read_member_votes(page, return_ids=True); the voter_party of the
\* row is never read.
Row(id, t) == [voter_id |-> id, vote |-> t]

\* get_or_create(vote, member, defaults={type, party: m.current_party}) and
\* va.save() when created: an existing action is left as it is.
GetOrCreate(acts, m, t) ==
    IF acts[m] # NoAction THEN acts[m]
    ELSE NewVoteAction(t, SavedParty(m, current_party[m]))

\* One pass of the loop over the rows: Member.objects.get raises for an id
\* of no Member, the except clause logs it and the loop continues.
ReparsedRow(acts, row) ==
    IF row.voter_id \notin Members THEN acts
    ELSE [acts EXCEPT ![row.voter_id] = GetOrCreate(acts, row.voter_id, row.vote)]

\* A slip: the exception of an unknown id ends the loop.
RECURSIVE ReparsedRowsStopAtUnknown(_, _)
ReparsedRowsStopAtUnknown(acts, rows) ==
    IF rows = <<>> \/ Head(rows).voter_id \notin Members THEN acts
    ELSE ReparsedRowsStopAtUnknown(ReparsedRow(acts, Head(rows)), Tail(rows))

\* The loop over the rows, in the order of the page.
RECURSIVE ReparsedRows(_, _)
ReparsedRows(acts, rows) ==
    IF rows = <<>> THEN acts
    ELSE ReparsedRows(ReparsedRow(acts, Head(rows)), Tail(rows))

\* The party column is NOT NULL: the rows can be stored when every new one
\* ends with a party.
Storable(ms) ==
    \A m \in ms \ Voters : SavedParty(m, current_party[m]) # NoParty

\* The rows of the members ms, by member id; the page gives the stored vote
\* for a member whose action exists and types[m] for the others.
KnownRows(ms, types) ==
    [i \in 1..Cardinality(ms) |->
        LET m == CHOOSE n \in ms : Cardinality({k \in ms : k < n}) = i - 1
        IN  Row(m, IF m \in Voters THEN actions[m].type ELSE types[m])]

\* The pages that list ms: as they are, or with one row of an unknown voter
\* id of ids before, between or after the rows of the members.
Pages(ms, types, ids) ==
    LET known == KnownRows(ms, types)
    IN  {known} \cup
        {SubSeq(known, 1, k) \o <<Row(id, "for")>> \o SubSeq(known, k + 1, Len(known)) :
            k \in 0..Len(known), id \in ids}

\* One run over the rows of a votes page.  The page is the roll call of the
\* vote: it lists the members whose actions exist and any others (new), and
\* types are the votes it gives for the new ones (the vote of a row is not
\* read when the member's action exists); ids are the voter ids of no
\* Member that the page may hold.
reparse_members_from_votes_page(ids) ==
    /\ \E new \in SUBSET (Members \ Voters) :
         \E ms \in {Voters \cup new}, types \in [new -> VOTE_ACTION_TYPE_CHOICES] :
            /\ ms # {}
            /\ Storable(ms)
            /\ \E page \in Pages(ms, types, ids) :
                  /\ results' = page
                  /\ actions' = ReparsedRows(actions, page)
    /\ vote_op' = "edit"
    /\ UNCHANGED <<vote, vote_env, bill_vars, stats_vars>>

\* A VoteAction built without a party (the sync job) and saved.
VoteAction_save ==
    /\ \E m \in Members, t \in VOTE_ACTION_TYPE_CHOICES :
          /\ actions[m] = NoAction
          /\ SavedParty(m, NoParty) # NoParty
          /\ actions' = [actions EXCEPT ![m] = NewVoteAction(t, SavedParty(m, NoParty))]
    /\ results' = <<>>
    /\ vote_op' = "edit"
    /\ UNCHANGED <<vote, vote_env, bill_vars, stats_vars>>

\* The proposers of the bills a vote can be about: none, or member 1.
ProposerSets == {{}, {1}}

\* A bill is linked to the vote or unlinked from it: Vote.bills() changes, and
\* with it the set of proposers the next classification reads.
set_bills ==
    /\ \E ps \in ProposerSets \ {proposers} : proposers' = ps
    /\ results' = <<>>
    /\ vote_op' = "edit"
    /\ UNCHANGED <<vote, actions, party_at, current_party, is_coalition, bill_vars, stats_vars>>

-----------------------------------------------------------------------------
(* Voting statistics of one member, of the member's party and of a           *)
(* candidates list.  The member sits in the party today; the VoteActions of  *)
(* other members are left out, no statistic below reads them.                *)

\* Knesset.objects.current_knesset().start_date, as a day number.
KnessetStart == 1

\* The days of the votes: the start of the current Knesset and the day after.
VoteTimes == {KnessetStart, KnessetStart + 1}

\* What a VoteAction row adds to the statistics of its member.
MemberAction(t, ap, d) == [type |-> t, against_party |-> ap, time |-> d]

\* What a call returned or raised; from_date is the argument of
\* MemberVotingStatistics.discipline and NULL for the other calls.
Returned(call, kind, n) == [call |-> call, from_date |-> NULL, kind |-> kind, value |-> n]

NoResult == Returned("", "", 0)

\* A returned number, in tenths.
Number(call, n) == Returned(call, "number", n)

\* None (MemberVotingStatistics) and _('N/A') (the other two).
Sentinel(call) == Returned(call, "sentinel", 0)

\* float division by zero
ZeroDivisionError(call) == Returned(call, "ZeroDivisionError", 0)

RECURSIVE SumCopies(_, _)
SumCopies(B, S) ==
    IF S = {} THEN 0
    ELSE LET r == CHOOSE x \in S : TRUE
         IN  CopiesIn(r, B) + SumCopies(B, S \ {r})

\* .filter(vote__time__gt=d) when d is given
Since(d) == {r \in BagToSet(member_actions) : d = NULL \/ r.time > d}

\* .exclude(type='no-vote').count()
VotesCount(d) == SumCopies(member_actions, {r \in Since(d) : r.type # "no-vote"})

\* .filter(against_party=True).count()
AgainstPartyCount(d) == SumCopies(member_actions, {r \in Since(d) : r.against_party})

\* round(n / d) for d > 0: Python 2 rounds a half away from zero.  With n in
\* tenths it is round(n / d, 1) in tenths.
Round(n, d) ==
    IF n >= 0 THEN (2 * n + d) \div (2 * d) ELSE 0 - ((2 * (0 - n) + d) \div (2 * d))

\* round(100.0 * (total_votes - votes_against_party) / total_votes, 1)
Discipline(total_votes, votes_against_party) ==
    Round(1000 * (total_votes - votes_against_party), total_votes)

\* MemberVotingStatistics.votes_count(from_date): the count of the rows when
\* a date is given, else the cache entry unless it is absent or 0.
CachedVotesCount(from_date) ==
    IF from_date # NULL THEN VotesCount(from_date)
    ELSE IF votes_count_cache # NULL /\ votes_count_cache # 0 THEN votes_count_cache
    ELSE VotesCount(NULL)

\* The cache after votes_count(from_date): set on a miss without a date.
CacheAfter(from_date) ==
    IF from_date = NULL /\ (votes_count_cache = NULL \/ votes_count_cache = 0)
    THEN VotesCount(NULL) ELSE votes_count_cache

stats_env == <<number_of_seats, member_ids>>

\* VoteAction.save: the member's action on one more vote; the flags are False.
save_member_action ==
    /\ BagCardinality(member_actions) < MaxVotes
    /\ \E t \in VOTE_ACTION_TYPE_CHOICES, d \in VoteTimes :
          member_actions' = member_actions (+) SetToBag({MemberAction(t, FALSE, d)})
    /\ returned' = NoResult
    /\ UNCHANGED <<votes_count_cache, stats_env, bill_vars, vote_vars>>

\* Vote.update_vote_properties on one of the member's votes: against_party
\* of the member's action is set anew, from the action's type and from the
\* stand of the member's party in that vote, which the votes of the whole
\* party decide.
classify_member_action ==
    /\ \E r \in BagToSet(member_actions), stand \in {"for", "against", "none"} :
          LET ap == \/ stand = "for" /\ r.type = "against"
                    \/ stand = "against" /\ r.type = "for"
          IN  member_actions' = (member_actions (-) SetToBag({r}))
                                    (+) SetToBag({MemberAction(r.type, ap, r.time)})
    /\ returned' = NoResult
    /\ UNCHANGED <<votes_count_cache, stats_env, bill_vars, vote_vars>>

\* The cache entry outlives settings.LONG_CACHE_TIME and is dropped.
cache_expiry ==
    /\ votes_count_cache # NULL
    /\ votes_count_cache' = NULL
    /\ returned' = NoResult
    /\ UNCHANGED <<member_actions, stats_env, bill_vars, vote_vars>>

\* MemberVotingStatistics.votes_count() without a date, as
\* average_votes_per_month calls it.
Member_votes_count ==
    /\ votes_count_cache' = CacheAfter(NULL)
    /\ returned' = Number("Member.votes_count", 10 * CachedVotesCount(NULL))
    /\ UNCHANGED <<member_actions, stats_env, bill_vars, vote_vars>>

\* MemberVotingStatistics.discipline(from_date)
Member_discipline(from_date) ==
    /\ votes_count_cache' = CacheAfter(from_date)
    /\ returned' =
          LET total_votes == CachedVotesCount(from_date)
              r == IF total_votes <= 3 THEN Sentinel("Member.discipline")
                   ELSE Number("Member.discipline",
                               Discipline(total_votes, AgainstPartyCount(from_date)))
          IN  [r EXCEPT !.from_date = from_date]
    /\ UNCHANGED <<member_actions, stats_env, bill_vars, vote_vars>>

\* PartyVotingStatistics.discipline(): the votes after the Knesset's start.
Party_discipline ==
    /\ returned' =
          LET total_votes == VotesCount(KnessetStart)
          IN  IF total_votes # 0
              THEN Number("Party.discipline",
                          Discipline(total_votes, AgainstPartyCount(KnessetStart)))
              ELSE Sentinel("Party.discipline")
    /\ UNCHANGED <<member_actions, votes_count_cache, stats_env, bill_vars, vote_vars>>

\* The member is one of the candidates of the list.
StatMember == 1

\* member__id__in=self.candidates_list.member_ids
ListVotesCount == IF StatMember \in member_ids THEN VotesCount(NULL) ELSE 0

ListAgainstPartyCount == IF StatMember \in member_ids THEN AgainstPartyCount(NULL) ELSE 0

\* CandidateListVotingStatistics.discipline()
CandidateList_discipline ==
    /\ returned' =
          IF ListVotesCount # 0
          THEN Number("CandidateList.discipline",
                      Discipline(ListVotesCount, ListAgainstPartyCount))
          ELSE Sentinel("CandidateList.discipline")
    /\ UNCHANGED <<member_actions, votes_count_cache, stats_env, bill_vars, vote_vars>>

\* PartyVotingStatistics.votes_per_seat()
Party_votes_per_seat ==
    /\ returned' =
          IF number_of_seats = 0 THEN ZeroDivisionError("Party.votes_per_seat")
          ELSE Number("Party.votes_per_seat",
                      Round(10 * VotesCount(KnessetStart), number_of_seats))
    /\ UNCHANGED <<member_actions, votes_count_cache, stats_env, bill_vars, vote_vars>>

\* CandidateListVotingStatistics.votes_per_seat(): rounded to a whole number.
CandidateList_votes_per_seat ==
    /\ returned' =
          IF Cardinality(member_ids) = 0
          THEN ZeroDivisionError("CandidateList.votes_per_seat")
          ELSE Number("CandidateList.votes_per_seat",
                      10 * Round(ListVotesCount, Cardinality(member_ids)))
    /\ UNCHANGED <<member_actions, votes_count_cache, stats_env, bill_vars, vote_vars>>

-----------------------------------------------------------------------------
(* The states the specifications start from *)

\* No vote at all: the part of the state the bill's specification holds still.
IdleVote ==
    /\ vote = NewVote
    /\ actions = [m \in Members |-> NoAction]
    /\ party_at = [m \in Members |-> "A"]
    /\ current_party = [m \in Members |-> "A"]
    /\ is_coalition = [p \in Parties |-> TRUE]
    /\ proposers = {}
    /\ results = <<>>
    /\ vote_op = "edit"

\* A new bill, and the part of the state the vote's specifications hold still.
IdleBill ==
    /\ stage = NoStage
    /\ stage_date = NULL
    /\ approval_vote = NoVote
    /\ first_vote = NoVote
    /\ pre_votes = {}
    /\ first_committee_meetings = {}
    /\ second_committee_meetings = {}
    /\ knesset_proposal = NULL
    /\ gov_proposal = NULL
    /\ proposals = {}
    /\ bill_proposers = {}
    /\ stream = "generated"
    /\ another_bill = NoBill
    /\ proposal_votes = NoProposalVotes
    /\ bill_op = "edit"

\* A member without VoteActions, in a party with a seat and on the list.
IdleStats ==
    /\ member_actions = EmptyBag
    /\ votes_count_cache = NULL
    /\ number_of_seats = 1
    /\ member_ids = {StatMember}
    /\ returned = NoResult

\* A vote without actions, never classified.
EmptyVote ==
    /\ vote = NewVote
    /\ actions = [m \in Members |-> NoAction]
    /\ proposers = {}
    /\ results = <<>>
    /\ vote_op = "edit"

-----------------------------------------------------------------------------
(* Classification where every member has a party at the vote's date: any     *)
(* affiliation, any coalition, members who did not change party since.       *)
(* VoteActions are created one at a time by VoteAction.save; a votes page    *)
(* with several new rows leaves the actions that as many saves leave.        *)

InitVote ==
    /\ IdleBill
    /\ IdleStats
    /\ EmptyVote
    /\ party_at \in {f \in [Members -> Parties] :
                        /\ f[1] = "A"
                        /\ \A m, n \in Members \ {1} : (m < n /\ f[m] = "B") => f[n] = "B"}
    /\ current_party = party_at
    /\ is_coalition \in [Parties -> BOOLEAN]

NextVote ==
    \/ update_vote_properties_ok
    \/ VoteAction_save
    \/ set_bills

SpecVote == InitVote /\ [][NextVote]_vars

-----------------------------------------------------------------------------
(* Classification where members may have no party at the vote's date; they   *)
(* all sit in party A today, and every party is in the coalition.            *)

InitUnresolved ==
    /\ IdleBill
    /\ IdleStats
    /\ EmptyVote
    /\ party_at \in [Members -> Parties \cup {NoParty}]
    /\ current_party = [m \in Members |-> "A"]
    /\ is_coalition = [p \in Parties |-> TRUE]

NextUnresolved ==
    \/ update_vote_properties
    \/ reparse_members_from_votes_page({})
    \/ set_bills

SpecUnresolved == InitUnresolved /\ [][NextUnresolved]_vars

-----------------------------------------------------------------------------
(* Ingestion where a member's party today may differ from the party at the   *)
(* vote's date.                                                              *)

InitIngest ==
    /\ IdleBill
    /\ IdleStats
    /\ EmptyVote
    /\ party_at \in [Members -> Parties]
    /\ current_party \in [Members -> Parties]
    /\ is_coalition = [p \in Parties |-> TRUE]

NextIngest ==
    \/ reparse_members_from_votes_page({})
    \/ VoteAction_save

SpecIngest == InitIngest /\ [][NextIngest]_vars

-----------------------------------------------------------------------------
(* Ingestion of pages that may hold a row of an unknown voter id; every      *)
(* member sits in party A.                                                   *)

InitReparse == IdleBill /\ IdleVote /\ IdleStats

NextReparse ==
    \/ reparse_members_from_votes_page({UnknownVoterId})
    \/ VoteAction_save

SpecReparse == InitReparse /\ [][NextReparse]_vars

-----------------------------------------------------------------------------
(* Discipline statistics over ingestion, classification, cache fill, cache   *)
(* expiry and queries.                                                       *)

InitStats == IdleBill /\ IdleVote /\ IdleStats

NextStats ==
    \/ save_member_action
    \/ classify_member_action
    \/ cache_expiry
    \/ Member_votes_count
    \/ \E from_date \in {NULL} \cup VoteTimes : Member_discipline(from_date)
    \/ Party_discipline
    \/ CandidateList_discipline

SpecStats == InitStats /\ [][NextStats]_vars

-----------------------------------------------------------------------------
(* Votes per seat of a party with any number of seats and of a candidates    *)
(* list with or without the member.                                          *)

InitPerSeat ==
    /\ IdleBill
    /\ IdleVote
    /\ member_actions = EmptyBag
    /\ votes_count_cache = NULL
    /\ number_of_seats \in 0..NumMembers
    /\ member_ids \in SUBSET {StatMember}
    /\ returned = NoResult

NextPerSeat ==
    \/ save_member_action
    \/ Party_votes_per_seat
    \/ CandidateList_votes_per_seat

SpecPerSeat == InitPerSeat /\ [][NextPerSeat]_vars

-----------------------------------------------------------------------------
(* Two bills: rows are attached to and detached from a bill, a second bill   *)
(* is created and gets rows of its own, and the first is merged into it;     *)
(* merge is what computes a stage.                                           *)

InitMerge == IdleBill /\ IdleVote /\ IdleStats

NextMerge ==
    \/ create_bill
    \/ merge
    \/ set_approval_vote
    \/ set_first_vote
    \/ set_pre_votes
    \/ set_first_committee_meetings
    \/ set_second_committee_meetings
    \/ set_knesset_proposal
    \/ set_gov_proposal
    \/ set_proposals
    \/ set_bill_proposers

SpecMerge == InitMerge /\ [][NextMerge]_vars

-----------------------------------------------------------------------------
(* One bill merged with itself: through the same object and through a second *)
(* object of the same row.                                                   *)

InitMergeSame == IdleBill /\ IdleVote /\ IdleStats

NextMergeSame ==
    \/ merge_same_record(TRUE)
    \/ merge_same_record(FALSE)
    \/ set_approval_vote
    \/ set_first_vote
    \/ set_pre_votes
    \/ set_first_committee_meetings
    \/ set_second_committee_meetings
    \/ set_knesset_proposal
    \/ set_gov_proposal
    \/ set_proposals
    \/ set_bill_proposers

SpecMergeSame == InitMergeSame /\ [][NextMergeSame]_vars

-----------------------------------------------------------------------------
(* The bill on its own: a new bill, then any edits and recomputations *)

InitBill == IdleBill /\ IdleVote /\ IdleStats

NextBill ==
    \/ update_stage(FALSE)
    \/ update_stage(TRUE)
    \/ set_approval_vote
    \/ set_first_vote
    \/ set_pre_votes
    \/ set_first_committee_meetings
    \/ set_second_committee_meetings
    \/ set_knesset_proposal
    \/ set_gov_proposal
    \/ set_proposals

SpecBill == InitBill /\ [][NextBill]_vars

\* Bill.update_votes on a bill with proposals and the votes linked to them.
InitUpdateVotes == IdleBill /\ IdleVote /\ IdleStats

NextUpdateVotes ==
    \/ update_votes
    \/ link_vote
    \/ set_knesset_proposal
    \/ set_gov_proposal
    \/ set_proposals

SpecUpdateVotes == InitUpdateVotes /\ [][NextUpdateVotes]_vars

-----------------------------------------------------------------------------
(* Claims about Bill.update_stage *)

\* C1: for a bill whose approval_vote is set, update_stage (forced or not),
\* from any prior stage and stage_date and with any other records attached,
\* ends with stage = APPROVED when the approval vote's for_votes_count is
\* greater than its against_votes_count and FAILED_APPROVAL otherwise, and
\* with stage_date = the approval vote's date.
C1_ApprovalVoteDecidesStage ==
    (bill_op = "update_stage" /\ approval_vote # NoVote) =>
        /\ stage = IF approval_vote.for_votes_count > approval_vote.against_votes_count
                   THEN APPROVED ELSE FAILED_APPROVAL
        /\ stage_date = approval_vote.time_date

\* A recomputation has just ended on a bill with a tied approval vote and a
\* second committee meeting dated after that vote.
C1_Witness ==
    /\ bill_op = "update_stage"
    /\ approval_vote # NoVote
    /\ approval_vote.for_votes_count = approval_vote.against_votes_count
    /\ stage = FAILED_APPROVAL
    /\ \E d \in second_committee_meetings : d > approval_vote.time_date

\* C2: every non-forced update_stage call on a bill that already has a
\* stage_date leaves a stage_date that is not earlier than the one before the
\* call, whatever is attached to the bill.
C2_StageDateNeverGoesBack ==
    [][(update_stage(FALSE) /\ stage_date # NULL) => stage_date' >= stage_date]_vars

\* C3: update_stage is idempotent: a second call right after a first one, with
\* nothing attached or detached in between, leaves the stage and stage_date
\* the first call saved.
C3_UpdateStageIdempotent ==
    [][(bill_op = "update_stage" /\ update_stage(FALSE)) =>
            (stage' = stage /\ stage_date' = stage_date)]_vars

-----------------------------------------------------------------------------
(* Claims about Vote.update_vote_properties *)

\* The stored action with its four flags cleared.
Cleared(m) == NewVoteAction(actions[m].type, actions[m].party)

Count(t) == Cardinality({m \in Members : actions[m].type = t})

Flagged(flag) == Cardinality({m \in Members : actions[m] # NoAction /\ actions[m][flag]})

\* C4: update_vote_properties is idempotent: right after a run, a second run
\* would leave every VoteAction's four flags and every aggregate counter as
\* they are, and what the run left is what it leaves when the stored flags
\* are all False, whatever they were before.
C4_ClassificationIdempotent ==
    vote_op = "classified" =>
        /\ \A m \in Voters : Classified(actions, m) = actions[m]
        /\ \A m \in Voters : Classified([n \in Members |-> Cleared(n)], m) = actions[m]
        /\ Aggregates(actions) = vote

\* A run has just ended with some flag set and some counter above zero.
C4_Witness ==
    /\ vote_op = "classified"
    /\ vote.against_party > 0
    /\ vote.against_own_bill > 0
    /\ \E m \in Voters : actions[m].against_coalition

\* The stored counters are the counts of the current VoteActions.
CountersMatch ==
    /\ vote.votes_count = Cardinality({m \in Members : actions[m] # NoAction})
    /\ vote.for_votes_count = Count("for")
    /\ vote.against_votes_count = Count("against")
    /\ vote.abstain_votes_count = Count("abstain")
    /\ vote.against_party = Flagged("against_party")
    /\ vote.against_coalition = Flagged("against_coalition")
    /\ vote.against_opposition = Flagged("against_opposition")
    /\ vote.against_own_bill = Flagged("against_own_bill")

\* C5 (as claimed): in every state reached by ingestion and classification
\* runs on a vote classified at least once, the stored counters equal the
\* counts derived from the vote's current VoteActions.
C5_CountersAlwaysMatch ==
    vote # NewVote => CountersMatch

\* C5 (amended): right after an update_vote_properties run that completed,
\* the stored counters equal the counts derived from the vote's VoteActions.
C5_CountersMatchAfterClassification ==
    vote_op = "classified" => CountersMatch

\* A run has just ended on a vote of every member, with a 'no-vote' action
\* and an action against the member's own bill.
C5_Witness ==
    /\ vote_op = "classified"
    /\ Count("no-vote") > 0
    /\ vote.votes_count = NumMembers
    /\ vote.against_own_bill > 0

\* C6: right after update_vote_properties, for + against + abstain <=
\* votes_count and controversy = min(for_votes_count, against_votes_count).
C6_Conservation ==
    vote_op = "classified" =>
        /\ vote.for_votes_count + vote.against_votes_count + vote.abstain_votes_count
              <= vote.votes_count
        /\ vote.controversy <= vote.for_votes_count
        /\ vote.controversy <= vote.against_votes_count
        /\ vote.controversy \in {vote.for_votes_count, vote.against_votes_count}

\* A run has just ended with 'for' and 'against' votes both present and a
\* 'no-vote' action that only votes_count counts.
C6_Witness ==
    /\ vote_op = "classified"
    /\ vote.controversy > 0
    /\ vote.for_votes_count + vote.against_votes_count + vote.abstain_votes_count
          < vote.votes_count

\* The members of party p at the vote's date who voted t.
PartyCount(p, t) == Cardinality({m \in Members : actions[m].type = t /\ party_at[m] = p})

\* The members of the coalition (or of the opposition) who voted t.
SideCount(coalition, t) ==
    Cardinality({m \in Members : actions[m].type = t /\ is_coalition[party_at[m]] = coalition})

\* n is strictly more than STANDS_FOR_THRESHOLD of n + k.
Majority(n, k) == n * STANDS_FOR_THRESHOLD_DEN > STANDS_FOR_THRESHOLD_NUM * (n + k)

\* C7: after update_vote_properties, a VoteAction's against_party is true
\* iff the member's party at the vote's date stands for and the action is
\* 'against', or it stands against and the action is 'for'; a party stands
\* for (against) exactly when its for (against) count is strictly greater
\* than STANDS_FOR_THRESHOLD times its for + against count.
C7_AgainstParty ==
    vote_op = "classified" =>
        \A m \in Voters :
            LET f == PartyCount(party_at[m], "for")
                a == PartyCount(party_at[m], "against")
            IN  actions[m].against_party <=>
                    \/ Majority(f, a) /\ actions[m].type = "against"
                    \/ Majority(a, f) /\ actions[m].type = "for"

\* A run has just ended where a member who voted 'for' is flagged against a
\* party that stands against.
C7_Witness ==
    /\ vote_op = "classified"
    /\ \E m \in Voters : actions[m].against_party /\ actions[m].type = "for"

\* C8: after update_vote_properties, a VoteAction of a coalition member has
\* against_coalition true iff it disagrees with the coalition's stand (over
\* all coalition parties) and against_opposition false; a VoteAction of an
\* opposition member has against_opposition true iff it disagrees with the
\* opposition's stand and against_coalition false.
C8_AgainstCoalitionOrOpposition ==
    vote_op = "classified" =>
        \A m \in Voters :
            LET c == is_coalition[party_at[m]]
                f == SideCount(c, "for")
                a == SideCount(c, "against")
                disagrees == \/ Majority(f, a) /\ actions[m].type = "against"
                             \/ Majority(a, f) /\ actions[m].type = "for"
            IN  /\ (IF c THEN actions[m].against_coalition
                         ELSE actions[m].against_opposition) <=> disagrees
                /\ ~(IF c THEN actions[m].against_opposition
                          ELSE actions[m].against_coalition)

\* A run has just ended where a member is flagged against a coalition of
\* two parties whose stand needs both, and is not flagged against the
\* party.
C8_Witness ==
    /\ vote_op = "classified"
    /\ \A p \in Parties : is_coalition[p]
    /\ \E m \in Voters :
          /\ actions[m].against_coalition
          /\ ~actions[m].against_party
          /\ \E n \in Voters : party_at[n] # party_at[m]

\* C9: when a member with a VoteAction on the vote has no party at the
\* vote's date, update_vote_properties raises, and no VoteAction flag and no
\* counter of the Vote is changed by that run.
C9_UnresolvedPartyAbortsWholeRun ==
    [][(Unresolved(Voters) # {} /\ vote_op' \in {"classified", "raised"}) =>
            (vote_op' = "raised" /\ actions' = actions /\ vote' = vote)]_vars

-----------------------------------------------------------------------------
(* Claims about ingestion *)

\* C10: every VoteAction created by reparse_members_from_votes_page or saved
\* through VoteAction.save carries the party the member belonged to at the
\* vote's date, also when the member's current party differs.
C10_PartyIsPartyAtVoteDate ==
    \A m \in Voters : actions[m].party = party_at[m]

\* C11: in reparse_members_from_votes_page a row whose voter id is the id of
\* no Member is skipped without raising: every other row of the page, before
\* and after it, has a VoteAction of its member on the vote afterwards, and
\* no VoteAction exists for an id that is not a Member's.
C11_UnknownVoterIsSkipped ==
    results # <<>> =>
        /\ \A i \in 1..Len(results) :
              results[i].voter_id \in Members => actions[results[i].voter_id] # NoAction
        /\ DOMAIN actions = Members

\* A page was parsed with the row of an unknown id between two rows of
\* members, and the member of the row after it voted as that row says.
C11_Witness ==
    /\ Len(results) = 3
    /\ results[2].voter_id = UnknownVoterId
    /\ actions[results[3].voter_id].type = "against"
    /\ actions[results[1].voter_id].type = "abstain"

-----------------------------------------------------------------------------
(* Claims about the voting statistics *)

\* C12: for each kind of statistics entity, discipline returns the 'not
\* applicable' sentinel whenever the entity's votes_count is <= 3, and a
\* number whenever it is > 3.
C12_SentinelUpToThreeVotes ==
    /\ returned.call = "Member.discipline" =>
          (returned.kind = "sentinel" <=> CachedVotesCount(returned.from_date) <= 3)
    /\ returned.call = "Party.discipline" =>
          (returned.kind = "sentinel" <=> VotesCount(KnessetStart) <= 3)
    /\ returned.call = "CandidateList.discipline" =>
          (returned.kind = "sentinel" <=> ListVotesCount <= 3)

\* C13: in every state reached by ingestion, classification, cache fill,
\* cache expiry and queries, MemberVotingStatistics.discipline returned the
\* sentinel or a value from 0 to 100.
C13_MemberDisciplineInBounds ==
    returned.call = "Member.discipline" =>
        \/ returned.kind = "sentinel"
        \/ returned.kind = "number" /\ returned.value >= 0 /\ returned.value <= 1000

\* C14: votes_per_seat on an entity with zero seats (a party with
\* number_of_seats = 0, a candidates list without members) signals an
\* invalid-input condition and does not fail with a division by zero.
C14_ZeroSeatsIsInvalidInput ==
    /\ (returned.call = "Party.votes_per_seat" /\ number_of_seats = 0) =>
          returned.kind = "invalid-input"
    /\ (returned.call = "CandidateList.votes_per_seat" /\ member_ids = {}) =>
          returned.kind = "invalid-input"
    /\ returned.kind # "ZeroDivisionError"

-----------------------------------------------------------------------------
(* Claims about Bill.update_stage and Bill.merge *)

\* C15: every Bill.update_stage call, whichever branch it takes, ends with
\* the bill's activity stream cleared and regenerated from the bill's current
\* proposals, votes and committee meetings.
C15_StreamRegeneratedByEveryBranch ==
    bill_op = "update_stage" => stream = "generated"

\* C16: for a new bill (no stage_date yet) whose only related rows are a
\* GovProposal, or a GovProposal and a KnessetProposal, update_stage ends
\* with stage = IN_COMMITTEE and stage_date = the GovProposal's date, or the
\* later of the two dates.
C16_NewBillWithGovProposal ==
    [][(/\ bill_op' = "update_stage"
        /\ stage_date = NULL
        /\ gov_proposal # NULL
        /\ approval_vote = NoVote /\ first_vote = NoVote /\ pre_votes = {}
        /\ first_committee_meetings = {} /\ second_committee_meetings = {}
        /\ proposals = {})
       => (/\ stage' = IN_COMMITTEE
           /\ stage_date' = IF knesset_proposal # NULL /\ knesset_proposal > gov_proposal
                             THEN knesset_proposal ELSE gov_proposal)]_vars

\* update_stage has just run on a bill with nothing but a GovProposal and a
\* later KnessetProposal, and the bill is in committee since the later date.
C16_Witness ==
    /\ bill_op = "update_stage"
    /\ gov_proposal # NULL
    /\ knesset_proposal # NULL
    /\ knesset_proposal > gov_proposal
    /\ Records = 2
    /\ stage = IN_COMMITTEE
    /\ stage_date = knesset_proposal

C18_MergeWithItselfIsNoOp ==
    [][bill_op' = "merge_same_record" =>
          (/\ pre_votes' = pre_votes
           /\ first_committee_meetings' = first_committee_meetings
           /\ second_committee_meetings' = second_committee_meetings
           /\ first_vote' = first_vote
           /\ approval_vote' = approval_vote
           /\ bill_proposers' = bill_proposers
           /\ proposals' = proposals
           /\ knesset_proposal' = knesset_proposal
           /\ gov_proposal' = gov_proposal)]_vars

\* C19: after a Bill.merge that does not abort, every pre-vote, first and
\* second committee meeting, proposer, private proposal, Knesset proposal
\* and government proposal of the source belongs to the target, except
\* where the target already had its own Knesset or government proposal, and
\* the source no longer exists.
C19_MergeMovesEverythingToTarget ==
    [][(/\ bill_op' = "merge"
        /\ another_bill # NoBill
        /\ ~(knesset_proposal # NULL /\ another_bill.knesset_proposal # NULL))
       => (/\ another_bill' = NoBill
           /\ another_bill.pre_votes \subseteq pre_votes'
           /\ another_bill.first_committee_meetings \subseteq first_committee_meetings'
           /\ another_bill.second_committee_meetings \subseteq second_committee_meetings'
           /\ another_bill.proposers \subseteq bill_proposers'
           /\ another_bill.proposals \subseteq proposals'
           /\ (another_bill.knesset_proposal # NULL /\ knesset_proposal = NULL)
                 => knesset_proposal' = another_bill.knesset_proposal
           /\ (another_bill.gov_proposal # NULL /\ gov_proposal = NULL)
                 => gov_proposal' = another_bill.gov_proposal)]_vars

\* C20: update_stage(force_update=True) yields a stage and a stage_date that
\* depend only on the bill's related rows: they are what the forced call
\* yields on a bill with the same rows that never had a stage.
C20_ForcedStageDependsOnRowsOnly ==
    [][update_stage(TRUE) =>
          St(stage', stage_date') \in UpdateStageResults(St(NoStage, FIRST_KNESSET_START))]_vars

\* C21: in update_stage on a bill without an approval vote, a second
\* committee meeting dated on or after the current stage_date, a meeting
\* dated exactly on stage_date included, sets stage = COMMITTEE_CORRECTIONS
\* and stage_date = that meeting's date, and the call returns there.
C21_SecondMeetingOnOrAfterStageDate ==
    [][\A force_update \in BOOLEAN :
          (/\ update_stage(force_update)
           /\ approval_vote = NoVote
           /\ \E d \in second_committee_meetings : d >= ResetStageDate(force_update).stage_date)
          => (/\ stage' = COMMITTEE_CORRECTIONS
              /\ stage_date' \in {d \in second_committee_meetings :
                                      d >= ResetStageDate(force_update).stage_date})]_vars

\* C22: after update_stage on a bill with a first_vote and no
\* approval_vote the stage is FIRST_VOTE, FAILED_FIRST_VOTE or
\* COMMITTEE_CORRECTIONS, whatever proposals, first committee meetings and
\* pre-votes exist; when it is not COMMITTEE_CORRECTIONS it is FIRST_VOTE iff
\* the first vote's for count exceeds its against count, and stage_date is
\* the first vote's date.
C22_FirstVoteIsNotDowngraded ==
    (bill_op = "update_stage" /\ first_vote # NoVote /\ approval_vote = NoVote)
    => (/\ stage \in {FIRST_VOTE, FAILED_FIRST_VOTE, COMMITTEE_CORRECTIONS}
        /\ stage # COMMITTEE_CORRECTIONS =>
              (/\ stage = FIRST_VOTE <=>
                      first_vote.for_votes_count > first_vote.against_votes_count
               /\ stage_date = first_vote.time_date))

\* update_stage has just run on a bill whose first vote passed and which
\* has a pre-vote dated after the first vote.
C22_Witness ==
    /\ bill_op = "update_stage"
    /\ approval_vote = NoVote
    /\ first_vote # NoVote
    /\ \E v \in pre_votes : v.time_date > first_vote.time_date
    /\ stage = FIRST_VOTE
    /\ stage_date = first_vote.time_date

\* The stage and stage_date with which update_stage enters its scan of the
\* first committee meetings: after the first lines and the two proposals.
BeforeFirstCommitteeMeetings(force_update) ==
    ProposalStep(gov_proposal, ProposalStep(knesset_proposal, ResetStageDate(force_update)))

\* C23: when the stage is CONVERTED_TO_DISCUSSION at the point where
\* update_stage scans the first committee meetings, no meeting changes the
\* stage or the stage_date; when the stage is anything else, a first
\* committee meeting dated on or after stage_date sets stage = IN_COMMITTEE
\* and stage_date = the meeting's date.
C23_FirstMeetingOnOrAfterStageDate ==
    [][\A force_update \in BOOLEAN :
          (update_stage(force_update) /\ ReachesFullScan(ResetStageDate(force_update)))
          => LET st == BeforeFirstCommitteeMeetings(force_update)
             IN  \A fcm \in Orders(first_committee_meetings) :
                    IF st.stage = CONVERTED_TO_DISCUSSION
                    THEN ScanFirstCommitteeMeetings(fcm, st) = st
                    ELSE (\E d \in first_committee_meetings : d >= st.stage_date)
                         => (/\ ScanFirstCommitteeMeetings(fcm, st).stage = IN_COMMITTEE
                             /\ ScanFirstCommitteeMeetings(fcm, st).stage_date
                                   \in {d \in first_committee_meetings : d >= st.stage_date})]_vars

Passed(v) == v.for_votes_count > v.against_votes_count

LatestPreVotes == {v \in pre_votes : \A w \in pre_votes : w.time_date <= v.time_date}

\* C24: after a forced update_stage on a bill whose only related rows are
\* pre-votes, none with a converted-to-discussion title, the stage is
\* PRE_APPROVED if the latest-dated pre-vote has for_votes_count >
\* against_votes_count and FAILED_PRE_APPROVAL otherwise, and stage_date is
\* that pre-vote's date, in whatever order the pre-votes are iterated.
C24_LatestPreVoteDecides ==
    [][(/\ update_stage(TRUE)
        /\ pre_votes # {}
        /\ \A v \in pre_votes : v.title \notin CONVERT_TO_DISCUSSION_HEADERS
        /\ approval_vote = NoVote /\ first_vote = NoVote
        /\ first_committee_meetings = {} /\ second_committee_meetings = {}
        /\ knesset_proposal = NULL /\ gov_proposal = NULL /\ proposals = {})
       => \E v \in LatestPreVotes :
             /\ stage' = IF Passed(v) THEN PRE_APPROVED ELSE FAILED_PRE_APPROVAL
             /\ stage_date' = v.time_date]_vars

HoldsTwoRoles ==
    \E v \in pre_votes :
        \/ first_vote # NoVote /\ first_vote.id = v.id
        \/ approval_vote # NoVote /\ approval_vote.id = v.id

\* C25: after update_votes on a bill that starts with no votes assigned, no
\* vote holds two roles: a vote assigned as first_vote or approval_vote from
\* the government or Knesset proposal is not also one of the pre_votes, even
\* when it is linked to a private proposal of the bill as well.
C25_NoVoteHoldsTwoRoles ==
    [][(/\ bill_op' = "update_votes"
        /\ approval_vote = NoVote /\ first_vote = NoVote /\ pre_votes = {})
       => ~HoldsTwoRoles']_vars

====
